---- MODULE Spec2Model ----
(***************************************************************************)
(* hitbtc-cryptoexchange-api: the request agent (getRawAgent) and the      *)
(* client facade (getClient) of src/index.ts, in its two variants: the     *)
(* Basic-Auth variant (lines 1-518) and the HMAC variant (lines 520-1399). *)
(*                                                                         *)
(* JavaScript values are tagged records: [type |-> "undefined"],           *)
(* [type |-> "null"], [type |-> "string", value |-> s], [type |-> "number",*)
(* value |-> n]; an object is a record with type "object" whose other      *)
(* fields are its properties.  Parameter objects, whose key order matters  *)
(* to qs.stringify, keep their properties as the sequence `entries`.       *)
(***************************************************************************)
EXTENDS Integers, Sequences, FiniteSets, TLC

VARIABLES variant, ctorAuth, auth, configOverride, inflight, last, peer

vars == <<variant, ctorAuth, auth, configOverride, inflight, last, peer>>

(***************************************************************************)
(* Bounds.                                                                 *)
(***************************************************************************)
\* requests the transport holds unanswered at any one time
MaxInFlight == 1

(***************************************************************************)
(* JavaScript values.                                                      *)
(***************************************************************************)
Undefined == [type |-> "undefined"]
Null == [type |-> "null"]
Str(s) == [type |-> "string", value |-> s]
Num(n) == [type |-> "number", value |-> n]

\* an object literal { k1: v1, k2: v2 } of request parameters
ParamsObj(es) == [type |-> "object", entries |-> es]

Nullish(v) == v.type \in {"undefined", "null"}

\* ToBoolean, as `!x`, `x ? a : b` and `x || y` apply it
Truthy(v) ==
    CASE v.type \in {"undefined", "null"} -> FALSE
      [] v.type = "string" -> v.value # ""
      [] v.type = "number" -> v.value # 0
      [] OTHER -> TRUE

\* the own properties an object spread `...v` copies (none for null/undefined)
Props(v) == IF v.type = "object" THEN DOMAIN v \ {"type"} ELSE {}

\* { ...a, ...b }
Spread(a, b) ==
    [k \in DOMAIN a \cup Props(b) |-> IF k \in Props(b) THEN b[k] ELSE a[k]]

\* { ...a, k: v }
With(a, k, v) == [x \in DOMAIN a \cup {k} |-> IF x = k THEN v ELSE a[x]]

\* the property read o.k on a non-nullish value
Get(o, k) == IF k \in DOMAIN o /\ k # "type" THEN o[k] ELSE Undefined

\* what the engine throws for a property read on undefined or null
TypeError(prop, of) ==
    [type |-> "TypeError", property |-> prop, of |-> of.type]

\* `${v}` in a template literal
Interp(v) ==
    CASE v.type = "string" -> v.value
      [] v.type = "number" -> ToString(v.value)
      [] OTHER -> v.type

(***************************************************************************)
(* qs.stringify                                                            *)
(***************************************************************************)
\* encodeURIComponent, tabulated on the strings the inputs below contain
EncodeURIComponent(s) ==
    CASE s = "2018-05-01T00:00:00Z" -> "2018-05-01T00%3A00%3A00Z"
      [] s = "ETH BTC" -> "ETH%20BTC"
      [] OTHER -> s

RECURSIVE StringifyEntries(_)
StringifyEntries(es) ==
    IF es = <<>> THEN <<>>
    ELSE LET e == Head(es)
             rest == StringifyEntries(Tail(es))
         IN CASE e.value.type = "undefined" -> rest
              [] e.value.type = "null" -> <<EncodeURIComponent(e.key) \o "=">> \o rest
              [] OTHER -> <<EncodeURIComponent(e.key) \o "="
                              \o EncodeURIComponent(Interp(e.value))>> \o rest

RECURSIVE Join(_, _)
Join(parts, sep) ==
    IF parts = <<>> THEN ""
    ELSE IF Len(parts) = 1 THEN parts[1]
    ELSE parts[1] \o sep \o Join(Tail(parts), sep)

\* qs.stringify(obj): '' for null/undefined, else k=v pairs joined with '&'
QsStringify(obj) ==
    IF Nullish(obj) THEN "" ELSE Join(StringifyEntries(obj.entries), "&")

(***************************************************************************)
(* Module configuration (both variants define the same four objects).      *)
(***************************************************************************)
defaultConfig == [rootUrl |-> "https://api.hitbtc.com/api/2", timeout |-> 3000]

defaultAgentConfig ==
    [type |-> "object",
     baseURL |-> defaultConfig.rootUrl,
     headers |-> ("type" :> "object")
                 @@ ("Content-Type" :> "application/json")
                 @@ ("User-Agent" :>
                       "HitBTC API Client (hitbtc-cryptoexchange-api node package)"),
     method |-> "GET",
     timeout |-> defaultConfig.timeout]

publicAgentConfig == Spread(defaultAgentConfig, Null)

privateAgentConfig == With(defaultAgentConfig, "method", "POST")

(***************************************************************************)
(* What one call of an agent method does before it first suspends: `sent`  *)
(* is the request it hands to axios (NoRequest if it hands none) and       *)
(* `outcome` is the state of the promise it returned.                      *)
(***************************************************************************)
NoRequest == Undefined
Pending == [state |-> "pending"]
Resolved(v) == [state |-> "resolved", value |-> v]
Rejected(v) == [state |-> "rejected", value |-> v]

Sends(req) == [sent |-> req, outcome |-> Pending]
Fails(v) == [sent |-> NoRequest, outcome |-> Rejected(v)]

AuthRequired == Str("api keys are required to access private endpoints")

\* isUpgraded(): boolean { return this.auth; }
isUpgraded(thisAuth) == thisAuth

\* const headersOverride = config ? config.headers : null;
\* const headers = { ...privateAgentConfig.headers, ...headersOverride };
MergedHeaders(config) ==
    LET headersOverride == IF Truthy(config) THEN Get(config, "headers") ELSE Null
    IN Spread(privateAgentConfig.headers, headersOverride)

(***************************************************************************)
(* Basic-Auth variant, getRawAgent(auth): thisAuth is the field this.auth, *)
(* closureAuth the factory's parameter `auth` the methods close over.      *)
(***************************************************************************)
\* variant: the credential check of the private methods is applied here too
publicRequest_RequiresKeys(endpoint, queryParams, config) ==
    IF ~Truthy(isUpgraded(auth)) THEN Fails(AuthRequired)
    ELSE Sends(Spread(With(publicAgentConfig, "url",
                           "/" \o endpoint \o "?" \o QsStringify(queryParams)),
                      config))

\* variant: the query string is left off the URL
publicRequest_DropsQuery(endpoint, queryParams, config) ==
    Sends(Spread(With(publicAgentConfig, "url", "/" \o endpoint), config))

publicRequest(endpoint, queryParams, config) ==
    LET uri == "/" \o endpoint \o "?" \o QsStringify(queryParams)
        agentConfig == Spread(With(publicAgentConfig, "url", uri), config)
    IN Sends(agentConfig)

\* variant: the credential check is missing
privateRequest_NoCredentialCheck(thisAuth, closureAuth, endpoint, method, dataParams, config) ==
    IF Nullish(closureAuth) THEN Fails(TypeError("privateKey", closureAuth))
    ELSE Sends(Spread(With(With(With(With(With(privateAgentConfig,
             "headers", MergedHeaders(config)),
             "auth", [type |-> "object", password |-> closureAuth.privateKey,
                      username |-> closureAuth.publicKey]),
             "url", "/" \o endpoint), "method", method), "data", dataParams),
             config))

privateRequest(thisAuth, closureAuth, endpoint, method, dataParams, config) ==
    IF ~Truthy(isUpgraded(thisAuth)) THEN Fails(AuthRequired)
    ELSE
      LET data == IF method = "GET" THEN Null ELSE dataParams
          uri == IF method = "GET"
                 THEN "/" \o endpoint \o "/" \o QsStringify(dataParams)
                 ELSE "/" \o endpoint
          headers == MergedHeaders(config)
      IN IF Nullish(closureAuth)
         THEN \* auth.privateKey throws outside the try block
              Fails(TypeError("privateKey", closureAuth))
         ELSE
           LET httpBasicAuth == [type |-> "object",
                                 password |-> closureAuth.privateKey,
                                 username |-> closureAuth.publicKey]
               agentConfig ==
                 Spread(With(With(With(With(With(privateAgentConfig,
                     "headers", headers), "auth", httpBasicAuth),
                     "url", uri), "method", method), "data", data), config)
           IN Sends(agentConfig)

(***************************************************************************)
(* HMAC variant, getRawAgent(auth).                                        *)
(***************************************************************************)
getPublicEndpoint(endpoint, queryParams, config) ==
    LET uri == "/" \o endpoint \o "?" \o QsStringify(queryParams)
        agentConfig == Spread(With(publicAgentConfig, "url", uri), config)
    IN Sends(agentConfig)

\* deleteFromPrivateEndpoint and getFromPrivateEndpoint differ in the verb only
QueryToPrivateEndpoint(verb, thisAuth, endpoint, queryParams, config) ==
    IF ~Truthy(isUpgraded(thisAuth)) THEN Fails(AuthRequired)
    ELSE
      LET uri == "/" \o endpoint \o "?" \o QsStringify(queryParams)
          headers == MergedHeaders(config)
          agentConfig ==
            Spread(With(With(With(privateAgentConfig,
                "headers", headers), "method", verb), "url", uri), config)
      IN Sends(agentConfig)

deleteFromPrivateEndpoint(thisAuth, endpoint, queryParams, config) ==
    QueryToPrivateEndpoint("DELETE", thisAuth, endpoint, queryParams, config)

getFromPrivateEndpoint(thisAuth, endpoint, queryParams, config) ==
    QueryToPrivateEndpoint("GET", thisAuth, endpoint, queryParams, config)

\* patch/post/putToPrivateEndpoint differ in the verb only
BodyToPrivateEndpoint(verb, thisAuth, endpoint, data, config) ==
    IF ~Truthy(isUpgraded(thisAuth)) THEN Fails(AuthRequired)
    ELSE
      LET uri == "/" \o endpoint
          headers == MergedHeaders(config)
          agentConfig ==
            Spread(With(With(With(With(privateAgentConfig,
                "headers", headers), "url", uri), "method", verb),
                "data", data), config)
      IN Sends(agentConfig)

patchToPrivateEndpoint(thisAuth, endpoint, data, config) ==
    BodyToPrivateEndpoint("PATCH", thisAuth, endpoint, data, config)

postToPrivateEndpoint(thisAuth, endpoint, data, config) ==
    BodyToPrivateEndpoint("POST", thisAuth, endpoint, data, config)

putToPrivateEndpoint(thisAuth, endpoint, data, config) ==
    BodyToPrivateEndpoint("PUT", thisAuth, endpoint, data, config)

(***************************************************************************)
(* The catch block every request method shares:                            *)
(*   err.response.data.error || err.response.data || err.response || err   *)
(* A property read on undefined or null throws inside the catch block, and *)
(* the async function then rejects with that TypeError.                    *)
(***************************************************************************)
\* variant: the body is tried before its error field
rejectionReason_BodyFirst(err) ==
    LET response == Get(err, "response")
    IN IF Nullish(response) THEN TypeError("data", response)
       ELSE LET data == Get(response, "data")
            IN CASE Truthy(data) -> data
                 [] Nullish(data) -> TypeError("error", data)
                 [] Truthy(response) -> response
                 [] OTHER -> err

rejectionReason(err) ==
    LET response == Get(err, "response")
    IN IF Nullish(response) THEN TypeError("data", response)
       ELSE LET data == Get(response, "data")
            IN IF Nullish(data) THEN TypeError("error", data)
               ELSE LET error == Get(data, "error")
                    IN CASE Truthy(error) -> error
                         [] Truthy(data) -> data
                         [] Truthy(response) -> response
                         [] OTHER -> err

\* variant: the call resolves with the response body
OnResponse_ReturnsData(response) == Resolved(Get(response, "data"))

\* try { const response = await axios(agentConfig); return Promise.resolve(response); }
OnResponse(response) == Resolved(response)

\* catch (err) { ...; return Promise.reject(rejectionReason); }
OnError(err) == Rejected(rejectionReason(err))

(***************************************************************************)
(* The client facade, getClient(auth, configOverride): each operation is   *)
(* one call of an agent method.  An agent call is [fn, endpoint, method,   *)
(* params]; method is the verb argument of privateRequest ("-" where the   *)
(* agent method takes none).                                               *)
(***************************************************************************)
PublicOps ==
    {"getAvailableCurrencySymbols", "getSymbolInfo", "getAvailableCurrencies",
     "getCurrencyInfo", "getTicker", "getTickerInfo", "getTradesInfo",
     "getOrderBook", "getCandle"}

PrivateOps ==
    {"listOpenOrders", "createNewOrder", "cancelAllOrders", "getOrderByClientId",
     "createNewClientIdOrder", "cancelClientIdOrder", "replaceOrder",
     "getTradingBalances", "getTradingFee", "getTrades", "getOrders",
     "getTradesByOrderId", "getMainAccountBalance", "getAccountTransactions",
     "getAccountTransactionById", "withdrawCrypto", "commitCryptoWithdraw",
     "rollbackCryptoWithdraw", "getCryptoDepositAddress",
     "createCryptoDepositAddress", "transferToTrading"}

FacadeOps == PublicOps \cup PrivateOps

AgentCall(fn, endpoint, method, params) ==
    [fn |-> fn, endpoint |-> endpoint, method |-> method, params |-> params]

\* variant: getCurrencyInfo requests the currency endpoint
MarketData_CurrencyEndpoint(fn, op, id, params) ==
    CASE op = "getAvailableCurrencySymbols" -> AgentCall(fn, "public/symbol", "-", Null)
      [] op = "getSymbolInfo" -> AgentCall(fn, "public/symbol/" \o Interp(id), "-", Null)
      [] op = "getAvailableCurrencies" -> AgentCall(fn, "public/currency", "-", Null)
      [] op = "getCurrencyInfo" -> AgentCall(fn, "public/currency/" \o Interp(id), "-", Null)
      [] op = "getTicker" -> AgentCall(fn, "public/ticker", "-", Null)
      [] op = "getTickerInfo" -> AgentCall(fn, "public/ticker/" \o Interp(id), "-", Null)
      [] op = "getTradesInfo" -> AgentCall(fn, "public/trades/" \o Interp(id), "-", params)
      [] op = "getOrderBook" -> AgentCall(fn, "public/orderbook/" \o Interp(id), "-", params)
      [] op = "getCandle" -> AgentCall(fn, "public/candles/" \o Interp(id), "-", params)

\* the market data operations, the same in both facades but for the agent method
MarketData(fn, op, id, params) ==
    CASE op = "getAvailableCurrencySymbols" -> AgentCall(fn, "public/symbol", "-", Null)
      [] op = "getSymbolInfo" -> AgentCall(fn, "public/symbol/" \o Interp(id), "-", Null)
      [] op = "getAvailableCurrencies" -> AgentCall(fn, "public/currency", "-", Null)
      [] op = "getCurrencyInfo" -> AgentCall(fn, "public/symbol/" \o Interp(id), "-", Null)
      [] op = "getTicker" -> AgentCall(fn, "public/ticker", "-", Null)
      [] op = "getTickerInfo" -> AgentCall(fn, "public/ticker/" \o Interp(id), "-", Null)
      [] op = "getTradesInfo" -> AgentCall(fn, "public/trades/" \o Interp(id), "-", params)
      [] op = "getOrderBook" -> AgentCall(fn, "public/orderbook/" \o Interp(id), "-", params)
      [] op = "getCandle" -> AgentCall(fn, "public/candles/" \o Interp(id), "-", params)

\* Basic-Auth variant, src/index.ts 362-508
getClient(op, id, params) ==
    LET P(endpoint, method, data) == AgentCall("privateRequest", endpoint, method, data)
    IN CASE op \in PublicOps -> MarketData("publicRequest", op, id, params)
      [] op = "listOpenOrders" ->
            P("order", "GET", ParamsObj(<<[key |-> "symbol", value |-> id]>>))
      [] op = "createNewOrder" -> P("order", "POST", params)
      [] op = "cancelAllOrders" -> P("order", "DELETE", params)
      [] op = "getOrderByClientId" -> P("order/" \o Interp(id), "POST", params)
      [] op = "createNewClientIdOrder" -> P("order/" \o Interp(id), "PUT", params)
      [] op = "cancelClientIdOrder" -> P("order/" \o Interp(id), "DELETE", Null)
      [] op = "replaceOrder" -> P("order/" \o Interp(id), "PATCH", Null)
      [] op = "getTradingBalances" -> P("trading/balance", "GET", Null)
      [] op = "getTradingFee" -> P("trading/fee/" \o Interp(id), "GET", Null)
      [] op = "getTrades" -> P("history/trades", "GET", params)
      [] op = "getOrders" -> P("history/order", "GET", params)
      [] op = "getTradesByOrderId" ->
            P("history/order/" \o Interp(id) \o "/trades", "GET", Null)
      [] op = "getMainAccountBalance" -> P("account/balance", "GET", Null)
      [] op = "getAccountTransactions" -> P("account/transactions", "GET", params)
      [] op = "getAccountTransactionById" ->
            P("account/transaction/" \o Interp(id), "GET", Null)
      [] op = "withdrawCrypto" -> P("account/crypto/withdraw", "POST", params)
      [] op = "commitCryptoWithdraw" ->
            P("account/crypto/withdraw/" \o Interp(id), "PUT", Null)
      [] op = "rollbackCryptoWithdraw" ->
            P("account/crypto/withdraw/" \o Interp(id), "DELETE", Null)
      [] op = "getCryptoDepositAddress" ->
            P("account/crypto/address/" \o Interp(id), "GET", Null)
      [] op = "createCryptoDepositAddress" ->
            P("account/crypto/address/" \o Interp(id), "GET", Null)
      [] op = "transferToTrading" -> P("account/transfer", "POST", params)

\* HMAC variant, src/index.ts 1246-1390
getClientHmac(op, id, params) ==
    LET G(endpoint, q) == AgentCall("getFromPrivateEndpoint", endpoint, "-", q)
        D(endpoint, q) == AgentCall("deleteFromPrivateEndpoint", endpoint, "-", q)
        Po(endpoint, d) == AgentCall("postToPrivateEndpoint", endpoint, "-", d)
        Pu(endpoint, d) == AgentCall("putToPrivateEndpoint", endpoint, "-", d)
        Pa(endpoint, d) == AgentCall("patchToPrivateEndpoint", endpoint, "-", d)
    IN CASE op \in PublicOps -> MarketData("getPublicEndpoint", op, id, params)
      [] op = "listOpenOrders" ->
            G("order", ParamsObj(<<[key |-> "symbol", value |-> id]>>))
      [] op = "createNewOrder" -> Po("order", params)
      [] op = "cancelAllOrders" -> D("order", params)
      [] op = "getOrderByClientId" -> Po("order/" \o Interp(id), params)
      [] op = "createNewClientIdOrder" -> Pu("order/" \o Interp(id), params)
      [] op = "cancelClientIdOrder" -> D("order/" \o Interp(id), Null)
      [] op = "replaceOrder" -> Pa("order/" \o Interp(id), Null)
      [] op = "getTradingBalances" -> G("trading/balance", Null)
      [] op = "getTradingFee" -> G("trading/fee/" \o Interp(id), Null)
      [] op = "getTrades" -> G("history/trades", params)
      [] op = "getOrders" -> G("history/order", params)
      [] op = "getTradesByOrderId" ->
            G("history/order/" \o Interp(id) \o "/trades", Null)
      [] op = "getMainAccountBalance" -> G("account/balance", Null)
      [] op = "getAccountTransactions" -> G("account/transactions", params)
      [] op = "getAccountTransactionById" ->
            G("account/transaction/" \o Interp(id), Null)
      [] op = "withdrawCrypto" -> Po("account/crypto/withdraw", params)
      [] op = "commitCryptoWithdraw" ->
            Pu("account/crypto/withdraw/" \o Interp(id), Null)
      [] op = "rollbackCryptoWithdraw" ->
            D("account/crypto/withdraw/" \o Interp(id), Null)
      [] op = "getCryptoDepositAddress" ->
            G("account/crypto/address/" \o Interp(id), Null)
      [] op = "createCryptoDepositAddress" ->
            Po("account/crypto/address/" \o Interp(id), Null)
      [] op = "transferToTrading" -> Po("account/transfer", params)

\* the agent method an agent call names, applied to the agent's state
Invoke(c, thisAuth, closureAuth, config) ==
    CASE c.fn = "publicRequest" -> publicRequest(c.endpoint, c.params, config)
      [] c.fn = "privateRequest" ->
            privateRequest(thisAuth, closureAuth, c.endpoint, c.method, c.params, config)
      [] c.fn = "getPublicEndpoint" -> getPublicEndpoint(c.endpoint, c.params, config)
      [] c.fn = "getFromPrivateEndpoint" ->
            getFromPrivateEndpoint(thisAuth, c.endpoint, c.params, config)
      [] c.fn = "deleteFromPrivateEndpoint" ->
            deleteFromPrivateEndpoint(thisAuth, c.endpoint, c.params, config)
      [] c.fn = "postToPrivateEndpoint" ->
            postToPrivateEndpoint(thisAuth, c.endpoint, c.params, config)
      [] c.fn = "putToPrivateEndpoint" ->
            putToPrivateEndpoint(thisAuth, c.endpoint, c.params, config)
      [] c.fn = "patchToPrivateEndpoint" ->
            patchToPrivateEndpoint(thisAuth, c.endpoint, c.params, config)

(***************************************************************************)
(* Inputs.                                                                 *)
(***************************************************************************)
Variants == {"basic", "hmac"}

\* IApiAuth: the HMAC variant's type adds a passphrase
ApiAuth(v, n) ==
    IF v = "hmac"
    THEN [type |-> "object", publicKey |-> "pub" \o n, privateKey |-> "priv" \o n,
          passphrase |-> "pass" \o n]
    ELSE [type |-> "object", publicKey |-> "pub" \o n, privateKey |-> "priv" \o n]

KeyA(v) == ApiAuth(v, "A")
KeyB(v) == ApiAuth(v, "B")

\* getClient(auth?): constructed anonymous or with a key pair
CtorAuths(v) == {Undefined, KeyA(v)}

\* upgrade(newAuth: IApiAuth)
NewAuths(v) == {KeyA(v), KeyB(v)}

\* getClient(_, configOverride = null): no override, or one setting a header
HeadersOverride ==
    [type |-> "object",
     headers |-> ("type" :> "object") @@ ("X-Request-Source" :> "bot")]

Configs == {Null, HeadersOverride}

Entry(k, v) == [key |-> k, value |-> v]

OrderBookParams == ParamsObj(<<Entry("limit", Num(5))>>)
CandleParams == ParamsObj(<<Entry("limit", Num(5)), Entry("period", Str("M30"))>>)
TradesInfoParams == ParamsObj(<<Entry("from", Str("2018-05-01T00:00:00Z"))>>)
NewOrderParams ==
    ParamsObj(<<Entry("symbol", Str("ETHBTC")), Entry("side", Str("buy")),
                Entry("quantity", Str("0.1"))>>)
HistoryParams == ParamsObj(<<Entry("symbol", Str("ETHBTC")), Entry("limit", Num(5))>>)
TransferParams ==
    ParamsObj(<<Entry("currency", Str("BTC")), Entry("amount", Str("0.1")),
                Entry("type", Str("bankToExchange"))>>)
WithdrawParams ==
    ParamsObj(<<Entry("currency", Str("BTC")), Entry("amount", Str("0.1")),
                Entry("address", Str("1BoatSLRHtKNngkdXEeobR76b53LETtpyT"))>>)

Args(id, params) == [id |-> id, params |-> params]

\* the arguments each operation is called with ([id, params]; Undefined where
\* the operation has no such parameter or the caller leaves it out)
ArgsOf(op) ==
    CASE op \in {"getAvailableCurrencySymbols", "getAvailableCurrencies", "getTicker",
                 "getTradingBalances", "getMainAccountBalance"} ->
            {Args(Undefined, Undefined)}
      [] op \in {"getSymbolInfo", "getTickerInfo", "getTradingFee"} ->
            {Args(Str("ETHBTC"), Undefined)}
      [] op \in {"getCurrencyInfo", "getCryptoDepositAddress",
                 "createCryptoDepositAddress"} ->
            {Args(Str("BTC"), Undefined)}
      [] op = "getTradesInfo" ->
            {Args(Str("ETHBTC"), Undefined), Args(Str("ETHBTC"), TradesInfoParams)}
      [] op = "getOrderBook" ->
            {Args(Str("ETHBTC"), Undefined), Args(Str("ETHBTC"), OrderBookParams)}
      [] op = "getCandle" -> {Args(Str("ETHBTC"), CandleParams)}
      [] op = "listOpenOrders" ->
            {Args(Undefined, Undefined), Args(Str("ETHBTC"), Undefined)}
      [] op = "createNewOrder" -> {Args(Undefined, NewOrderParams)}
      [] op = "cancelAllOrders" ->
            {Args(Undefined, Undefined),
             Args(Undefined, ParamsObj(<<Entry("symbol", Str("ETHBTC"))>>))}
      [] op = "getOrderByClientId" ->
            {Args(Str("order1"), ParamsObj(<<Entry("wait", Num(1000))>>))}
      [] op = "createNewClientIdOrder" -> {Args(Str("order1"), NewOrderParams)}
      [] op \in {"cancelClientIdOrder", "replaceOrder"} ->
            {Args(Str("order1"), Undefined)}
      [] op \in {"getTrades", "getOrders"} ->
            {Args(Undefined, Undefined), Args(Undefined, HistoryParams)}
      [] op = "getTradesByOrderId" -> {Args(Num(42), Undefined)}
      [] op = "getAccountTransactions" ->
            {Args(Undefined, ParamsObj(<<Entry("currency", Str("BTC"))>>))}
      [] op = "getAccountTransactionById" -> {Args(Str("tx7"), Undefined)}
      [] op = "withdrawCrypto" -> {Args(Undefined, WithdrawParams)}
      [] op \in {"commitCryptoWithdraw", "rollbackCryptoWithdraw"} ->
            {Args(Str("wd3"), Undefined)}
      [] op = "transferToTrading" -> {Args(Undefined, TransferParams)}

\* what axios resolves with: the response object (status, headers, body)
Response(status, data) ==
    [type |-> "object", status |-> status,
     headers |-> [type |-> "object", server |-> "nginx"], data |-> data]

Responses ==
    {Response(200, [type |-> "object", id |-> Num(1)]),
     Response(200, [type |-> "object", error |-> Null, id |-> Num(2)])}

ApiError == [type |-> "object", code |-> Num(20001), message |-> Str("Insufficient funds")]

\* what axios rejects with
ErrApiError ==
    [type |-> "object", message |-> "Request failed with status code 400",
     response |-> Response(400, [type |-> "object", error |-> ApiError])]
ErrStringError ==
    [type |-> "object", message |-> "Request failed with status code 400",
     response |-> Response(400, [type |-> "object", error |-> Str("X")])]
ErrBodyOnly ==
    [type |-> "object", message |-> "Request failed with status code 502",
     response |-> Response(502, [type |-> "object", reason |-> Str("Bad Gateway")])]
ErrEmptyBody ==
    [type |-> "object", message |-> "Request failed with status code 503",
     response |-> Response(503, Str(""))]
ErrNoBody ==
    [type |-> "object", message |-> "Request failed with status code 504",
     response |-> [type |-> "object", status |-> 504,
                   headers |-> [type |-> "object", server |-> "nginx"]]]
ErrNoResponse ==
    [type |-> "object", message |-> "timeout of 3000ms exceeded",
     code |-> "ECONNABORTED"]

Errors ==
    {ErrApiError, ErrStringError, ErrBodyOnly, ErrEmptyBody, ErrNoBody, ErrNoResponse}

(***************************************************************************)
(* State.  variant: which module's getClient built the client; ctorAuth:   *)
(* the `auth` argument of getClient/getRawAgent; auth: rawAgent.auth;      *)
(* inflight: the requests axios holds unanswered, with the agent method    *)
(* awaiting each; last: the latest upgrade, call or settlement; peer: the   *)
(* agent of a second client built by another getClient call, if any.       *)
(***************************************************************************)
NoPeer == [type |-> "none"]

Init ==
    /\ variant \in Variants
    /\ ctorAuth \in CtorAuths(variant)
    /\ auth = ctorAuth
    /\ configOverride \in Configs
    /\ inflight = <<>>
    /\ last = [kind |-> "none"]
    /\ peer = NoPeer

\* variant: upgrading abandons the requests in flight
upgrade_DropsInFlight(newAuth) ==
    /\ auth' = newAuth
    /\ inflight' = <<>>
    /\ last' = [kind |-> "upgrade", newAuth |-> newAuth]
    /\ UNCHANGED <<variant, ctorAuth, configOverride, peer>>

\* variant: the factory's parameter is stored instead of the argument
upgrade_StoresClosure(newAuth) ==
    /\ auth' = ctorAuth
    /\ last' = [kind |-> "upgrade", newAuth |-> newAuth]
    /\ UNCHANGED <<variant, ctorAuth, configOverride, inflight, peer>>

\* upgrade(newAuth) { this.rawAgent.upgrade(newAuth); } -> this.auth = newAuth
upgrade(newAuth) ==
    /\ auth' = newAuth
    /\ last' = [kind |-> "upgrade", newAuth |-> newAuth]
    /\ UNCHANGED <<variant, ctorAuth, configOverride, inflight, peer>>

\* the facade of the client's variant
Facade(op, id, params) ==
    IF variant = "hmac" THEN getClientHmac(op, id, params) ELSE getClient(op, id, params)

\* a facade operation, up to the agent method's first suspension
Call(op, a) ==
    \E c \in {Facade(op, a.id, a.params)} :
      \E r \in {Invoke(c, auth, ctorAuth, configOverride)} :
        /\ r.sent # NoRequest => Len(inflight) < MaxInFlight
        /\ inflight' = IF r.sent # NoRequest
                       THEN Append(inflight, [op |-> op, fn |-> c.fn, request |-> r.sent])
                       ELSE inflight
        /\ last' = [kind |-> "call", op |-> op, args |-> a, call |-> c,
                    thisAuth |-> auth, sent |-> r.sent, outcome |-> r.outcome]
        /\ UNCHANGED <<variant, ctorAuth, auth, configOverride, peer>>

Remove(seq, i) == SubSeq(seq, 1, i - 1) \o SubSeq(seq, i + 1, Len(seq))

Settle(i, answer, outcome) ==
    /\ inflight' = Remove(inflight, i)
    /\ last' = [kind |-> "settle", fn |-> inflight[i].fn, answer |-> answer,
                outcome |-> outcome]
    /\ UNCHANGED <<variant, ctorAuth, auth, configOverride, peer>>

\* axios resolves: the awaiting method returns Promise.resolve(response)
TransportResponds(i, response) ==
    /\ i \in 1..Len(inflight)
    /\ Settle(i, [ok |-> TRUE, value |-> response], OnResponse(response))

\* axios rejects: the awaiting method runs its catch block
TransportFails(i, err) ==
    /\ i \in 1..Len(inflight)
    /\ Settle(i, [ok |-> FALSE, value |-> err], OnError(err))

Next ==
    \/ \E newAuth \in NewAuths(variant) : upgrade(newAuth)
    \/ \E op \in FacadeOps : \E a \in ArgsOf(op) : Call(op, a)
    \/ \E i \in 1..MaxInFlight : \E response \in Responses : TransportResponds(i, response)
    \/ \E i \in 1..MaxInFlight : \E err \in Errors : TransportFails(i, err)

Spec == Init /\ [][Next]_vars

\* axios answers every request: with a response, an error status, a network
\* error or, after `timeout` (3000 ms), a timeout error
TransportAnswers ==
    \E i \in 1..MaxInFlight :
      \/ \E response \in Responses : TransportResponds(i, response)
      \/ \E err \in Errors : TransportFails(i, err)

FairSpec == Spec /\ WF_vars(TransportAnswers)

TypeOK ==
    /\ variant \in Variants
    /\ Len(inflight) <= MaxInFlight

(***************************************************************************)
(* signMessage, exported by the second module and carried by its agent.    *)
(***************************************************************************)
\* Date.now() / 1000: the number millis/1000
Seconds(millis) == [type |-> "number", millis |-> millis]

\* the digits of n, left-padded with zeros to the given width
Pad(n, width) ==
    IF width = 3 /\ n < 10 THEN "00" \o ToString(n)
    ELSE IF (width = 3 /\ n < 100) \/ (width = 2 /\ n < 10) THEN "0" \o ToString(n)
    ELSE ToString(n)

\* `${timestamp}`: Number::toString of millis/1000, e.g. 1.5, 2, 1.025
NumberToString(x) ==
    LET whole == x.millis \div 1000
        frac == x.millis % 1000
    IN IF frac = 0 THEN ToString(whole)
       ELSE IF frac % 100 = 0 THEN ToString(whole) \o "." \o ToString(frac \div 100)
       ELSE IF frac % 10 = 0 THEN ToString(whole) \o "." \o Pad(frac \div 10, 2)
       ELSE ToString(whole) \o "." \o Pad(frac, 3)

\* String.prototype.toUpperCase on the verbs callers pass
ToUpperCase(str) ==
    CASE str = "post" -> "POST"
      [] str = "Post" -> "POST"
      [] str = "get" -> "GET"
      [] str = "delete" -> "DELETE"
      [] OTHER -> str

JsonValue(v) ==
    CASE v.type = "string" -> "\"" \o v.value \o "\""
      [] v.type = "number" -> ToString(v.value)
      [] OTHER -> "null"

RECURSIVE JsonEntries(_)
JsonEntries(es) ==
    IF es = <<>> THEN <<>>
    ELSE LET e == Head(es)
             rest == JsonEntries(Tail(es))
         IN IF e.value.type = "undefined" THEN rest
            ELSE <<"\"" \o e.key \o "\":" \o JsonValue(e.value)>> \o rest

\* JSON.stringify of a flat object: {"k":v,...}, undefined members left out
JsonStringify(obj) == "{" \o Join(JsonEntries(obj.entries), ",") \o "}"

\* new Buffer(privateKey, 'base64')
Base64Decode(privateKey) == [base64 |-> privateKey]

\* crypto.createHmac('sha256', key).update(data).digest('base64'): one digest
\* for each key and message
HmacSha256Base64(key, data) ==
    [algorithm |-> "sha256", key |-> key, data |-> data, encoding |-> "base64"]

\* variant: the method goes into the hashed string as passed
signMessage_KeepsMethodCase(privateKey, path, method, body, now) ==
    LET timestamp == Seconds(now)
        key == Base64Decode(privateKey)
        prehash == IF Truthy(body)
                   THEN NumberToString(timestamp) \o method \o path \o JsonStringify(body)
                   ELSE NumberToString(timestamp) \o method \o path
    IN [digest |-> HmacSha256Base64(key, prehash), timestamp |-> timestamp]

\* variant: the timestamp is returned but left out of the hashed string
signMessage_OmitsTimestamp(privateKey, path, method, body, now) ==
    LET timestamp == Seconds(now)
        key == Base64Decode(privateKey)
        prehash == IF Truthy(body)
                   THEN ToUpperCase(method) \o path \o JsonStringify(body)
                   ELSE ToUpperCase(method) \o path
    IN [digest |-> HmacSha256Base64(key, prehash), timestamp |-> timestamp]

\* signMessage(privateKey, path, method, body?), with `now` the value Date.now()
\* returns during the call
signMessage(privateKey, path, method, body, now) ==
    LET timestamp == Seconds(now)
        key == Base64Decode(privateKey)
        prehash == IF Truthy(body)
                   THEN NumberToString(timestamp) \o ToUpperCase(method) \o path
                        \o JsonStringify(body)
                   ELSE NumberToString(timestamp) \o ToUpperCase(method) \o path
    IN [digest |-> HmacSha256Base64(key, prehash), timestamp |-> timestamp]

\* arguments callers sign with, and readings of the clock in milliseconds
SignKeys == {"privA", "privB"}
SignPaths == {"/order", "/account/balance"}
SignMethods == {"post", "POST", "get"}
SignBodies == {Undefined, HistoryParams}
ClockReadings == {1000, 1500, 2000, 2025}

\* rawAgent.signMessage(...) / signMessage(...): computes and returns
SignMessage(privateKey, path, method, body, now) ==
    /\ last' = [kind |-> "sign", privateKey |-> privateKey, path |-> path,
                method |-> method, body |-> body, now |-> now,
                result |-> signMessage(privateKey, path, method, body, now)]
    /\ UNCHANGED <<variant, ctorAuth, auth, configOverride, inflight, peer>>

\* a client of the second module, whose agent carries signMessage
SignInit ==
    /\ variant = "hmac"
    /\ ctorAuth \in CtorAuths(variant)
    /\ auth = ctorAuth
    /\ configOverride \in Configs
    /\ inflight = <<>>
    /\ last = [kind |-> "none"]
    /\ peer = NoPeer

\* the operations run next to signMessage
SignOps == {"getTicker", "createNewOrder"}

SignNext ==
    \/ \E newAuth \in NewAuths(variant) : upgrade(newAuth)
    \/ \E privateKey \in SignKeys : \E path \in SignPaths : \E method \in SignMethods :
         \E body \in SignBodies : \E now \in ClockReadings :
           SignMessage(privateKey, path, method, body, now)
    \/ \E op \in SignOps : \E a \in ArgsOf(op) : Call(op, a)
    \/ \E i \in 1..MaxInFlight : \E response \in Responses : TransportResponds(i, response)
    \/ \E i \in 1..MaxInFlight : \E err \in Errors : TransportFails(i, err)

SignSpec == SignInit /\ [][SignNext]_vars

(***************************************************************************)
(* Two clients from two getClient calls.  Client 1's agent is the pair     *)
(* ctorAuth/auth, client 2's agent is peer.                                *)
(***************************************************************************)
Clients == {1, 2}

\* variant: one agent, built once, serves every client
rawAgentOf_Shared(c) == 1

\* rawAgent: getRawAgent(auth) -- every getClient call builds its own agent
rawAgentOf(c) == c

\* the factory parameter and the auth field of agent a
AgentState(a) == IF a = 1 THEN [ctorAuth |-> ctorAuth, auth |-> auth] ELSE peer

\* getClient(auth) twice, each with its own argument
TwoInit ==
    /\ variant \in Variants
    /\ ctorAuth \in CtorAuths(variant)
    /\ auth = ctorAuth
    /\ peer \in {[ctorAuth |-> a, auth |-> a] : a \in CtorAuths(variant)}
    /\ configOverride = Null
    /\ inflight = <<>>
    /\ last = [kind |-> "none"]

\* client.upgrade(newAuth) { this.rawAgent.upgrade(newAuth); }
ClientUpgrade(c, newAuth) ==
    /\ auth' = IF rawAgentOf(c) = 1 THEN newAuth ELSE auth
    /\ peer' = IF rawAgentOf(c) = 2 THEN [peer EXCEPT !.auth = newAuth] ELSE peer
    /\ last' = [kind |-> "upgrade", client |-> c, newAuth |-> newAuth]
    /\ UNCHANGED <<variant, ctorAuth, configOverride, inflight>>

\* what client.<op>(args) does before it first suspends
ClientInvoke(c, op, a) ==
    Invoke(Facade(op, a.id, a.params), AgentState(rawAgentOf(c)).auth,
           AgentState(rawAgentOf(c)).ctorAuth, configOverride)

\* client.isUpgraded() { return this.rawAgent.isUpgraded(); }
ClientIsUpgraded(c) == isUpgraded(AgentState(rawAgentOf(c)).auth)

ClientCall(c, op, a) ==
    \E r \in {ClientInvoke(c, op, a)} :
      /\ r.sent # NoRequest => Len(inflight) < MaxInFlight
      /\ inflight' = IF r.sent # NoRequest
                     THEN Append(inflight,
                                 [op |-> op, fn |-> Facade(op, a.id, a.params).fn,
                                  request |-> r.sent])
                     ELSE inflight
      /\ last' = [kind |-> "call", client |-> c, op |-> op, args |-> a,
                  sent |-> r.sent, outcome |-> r.outcome]
      /\ UNCHANGED <<variant, ctorAuth, auth, configOverride, peer>>

\* the operations the two clients run
TwoOps == {"getTicker", "getTradingBalances", "createNewOrder"}

TwoNext ==
    \/ \E c \in Clients : \E newAuth \in NewAuths(variant) : ClientUpgrade(c, newAuth)
    \/ \E c \in Clients : \E op \in TwoOps : \E a \in ArgsOf(op) : ClientCall(c, op, a)
    \/ \E i \in 1..MaxInFlight : \E response \in Responses : TransportResponds(i, response)
    \/ \E i \in 1..MaxInFlight : \E err \in Errors : TransportFails(i, err)

TwoSpec == TwoInit /\ [][TwoNext]_vars

(***************************************************************************)
(* Properties.                                                             *)
(***************************************************************************)
PrivateFns ==
    {"privateRequest", "getFromPrivateEndpoint", "deleteFromPrivateEndpoint",
     "postToPrivateEndpoint", "putToPrivateEndpoint", "patchToPrivateEndpoint"}

PublicFns == {"publicRequest", "getPublicEndpoint"}

IsCall == last.kind = "call"
IsSettle == last.kind = "settle"
PrivateCall == IsCall /\ last.op \in PrivateOps /\ last.call.fn \in PrivateFns
TransportFailed == IsSettle /\ ~last.answer.ok
TransportSucceeded == IsSettle /\ last.answer.ok

\* C1: a private operation called while the agent holds no credentials is
\* rejected with the fixed message and hands the transport nothing: the step
\* leaves the requests at the transport as they were.
C1_NoCredentialsNoRequest ==
    [][(/\ last' # last
        /\ last'.kind = "call"
        /\ last'.op \in PrivateOps
        /\ ~Truthy(auth))
       => (/\ last'.outcome = Rejected(AuthRequired)
           /\ last'.sent = NoRequest
           /\ inflight' = inflight)]_vars

C1_Witness ==
    /\ PrivateCall
    /\ ~Truthy(last.thisAuth)
    /\ configOverride # Null
    /\ last.outcome = Rejected(AuthRequired)
    /\ inflight = <<>>

\* C2 (as claimed): in the Basic-Auth variant a private request made with
\* credentials stored is handed to the transport with Basic Auth whose
\* username/password are the publicKey/privateKey stored on the agent then.
C2_BasicAuthFromStoredPair ==
    (IsCall /\ last.call.fn = "privateRequest" /\ Truthy(last.thisAuth))
    => /\ last.sent # NoRequest
       /\ last.sent.auth.username = last.thisAuth.publicKey
       /\ last.sent.auth.password = last.thisAuth.privateKey

\* the error carries a response whose body is there (not undefined, null or empty)
HasResponse(err) == ~Nullish(Get(err, "response"))
HasBody(err) ==
    /\ HasResponse(err)
    /\ ~Nullish(Get(err.response, "data"))
    /\ err.response.data # Str("")
HasErrorField(err) == HasBody(err) /\ "error" \in DOMAIN err.response.data

\* C3: when the transport fails with an error whose response has a body, the
\* call rejects with response.data.error if the body has an error field and
\* with response.data otherwise, whichever agent method made the request.
C3_RejectsWithMostSpecificBody ==
    (TransportFailed /\ HasBody(last.answer.value))
    => IF HasErrorField(last.answer.value)
       THEN last.outcome = Rejected(last.answer.value.response.data.error)
       ELSE last.outcome = Rejected(last.answer.value.response.data)

C3_Witness ==
    /\ TransportFailed
    /\ last.fn \in PrivateFns
    /\ last.answer.value = ErrStringError
    /\ last.outcome = Rejected(Str("X"))

\* C4 (as claimed): when the error carries a response without a body the call
\* rejects with that response, when it carries no response it rejects with
\* the error itself, and unwrapping raises no error of its own.
C4_RejectsWithResponseOrRawError ==
    (TransportFailed /\ ~HasBody(last.answer.value))
    => /\ last.outcome.value.type # "TypeError"
       /\ IF HasResponse(last.answer.value)
          THEN last.outcome = Rejected(last.answer.value.response)
          ELSE last.outcome = Rejected(last.answer.value)

\* C5: a client constructed without credentials, before any upgrade, reports
\* isUpgraded() falsy; right after upgrade(newAuth) it reports truthy, and no
\* later upgrade, request or settlement makes it report falsy again.
C5_UpgradedStaysUpgraded ==
    /\ []((last.kind = "none" /\ ctorAuth = Undefined) => ~Truthy(isUpgraded(auth)))
    /\ [](last.kind = "upgrade" => Truthy(isUpgraded(auth)))
    /\ [][Truthy(isUpgraded(auth)) => Truthy(isUpgraded(auth'))]_vars

C5_Witness ==
    /\ ctorAuth = Undefined
    /\ Truthy(isUpgraded(auth))
    /\ IsSettle
    /\ ~last.answer.ok

\* C6 (as claimed): a request privateRequest builds has, for GET, no body and
\* the URL '/' + endpoint + '?' + querystring(dataParams), and for any other
\* verb the URL '/' + endpoint and dataParams as its body.
C6_PrivateRequestShape ==
    (IsCall /\ last.call.fn = "privateRequest" /\ last.sent # NoRequest)
    => IF last.call.method = "GET"
       THEN /\ last.sent.data = Null
            /\ last.sent.url =
                 "/" \o last.call.endpoint \o "?" \o QsStringify(last.call.params)
       ELSE /\ last.sent.url = "/" \o last.call.endpoint
            /\ last.sent.data = last.call.params

\* the path spec.md gives each market data operation: the public endpoints of
\* section 6, getCurrencyInfo reusing the symbol endpoint (section 4.3)
DocumentedPublicPath(op, id) ==
    CASE op = "getAvailableCurrencySymbols" -> "public/symbol"
      [] op = "getSymbolInfo" -> "public/symbol/" \o id
      [] op = "getAvailableCurrencies" -> "public/currency"
      [] op = "getCurrencyInfo" -> "public/symbol/" \o id
      [] op = "getTicker" -> "public/ticker"
      [] op = "getTickerInfo" -> "public/ticker/" \o id
      [] op = "getTradesInfo" -> "public/trades/" \o id
      [] op = "getOrderBook" -> "public/orderbook/" \o id
      [] op = "getCandle" -> "public/candles/" \o id

\* C7: every market data operation issues a GET whose URL is the documented
\* path with the id interpolated, then '?' and the querystring encoding of the
\* caller's params (getOrderBook('ETHBTC', {limit: 5}) ->
\* GET /public/orderbook/ETHBTC?limit=5), in both variants.
C7_PublicRequestPath ==
    (IsCall /\ last.op \in PublicOps)
    => /\ last.sent # NoRequest
       /\ last.sent.method = "GET"
       /\ last.sent.url =
            "/" \o DocumentedPublicPath(last.op, Interp(last.args.id))
                \o "?" \o QsStringify(last.args.params)
       /\ (last.op = "getOrderBook" /\ last.args.params = OrderBookParams)
          => last.sent.url = "/public/orderbook/ETHBTC?limit=5"

C7_Witness ==
    /\ IsCall
    /\ last.op = "getTradesInfo"
    /\ last.sent # NoRequest
    /\ last.sent.url = "/public/trades/ETHBTC?from=2018-05-01T00%3A00%3A00Z"
    /\ Len(inflight) = 1

\* C8 (as claimed): with credentials set, createNewOrder(params) hands the
\* transport one request: POST to 'order' with params, unchanged, as its body.
C8_CreateNewOrderVerbatim ==
    (IsCall /\ last.op = "createNewOrder" /\ Truthy(last.thisAuth))
    => /\ last.sent # NoRequest
       /\ last.sent.method = "POST"
       /\ last.sent.url = "/order"
       /\ last.sent.data = last.args.params

\* the request has Basic Auth, or a header that is neither a default header
\* nor one the caller's override supplied (a signature header)
CarriesAuthentication(req) ==
    \/ "auth" \in DOMAIN req
    \/ ~(DOMAIN req.headers \subseteq
           (DOMAIN privateAgentConfig.headers
              \cup Props(IF Truthy(configOverride)
                         THEN Get(configOverride, "headers") ELSE Null)))

\* C9 (as claimed): every request of a private agent method that is at the
\* transport carries authentication.
C9_PrivateRequestsAuthenticated ==
    \A i \in 1..Len(inflight) :
        inflight[i].fn \in PrivateFns => CarriesAuthentication(inflight[i].request)

\* C10: when the transport answers with a response the call resolves with that
\* very response; when it answers with an error the call rejects.
C10_ResolvesWithTransportResponse ==
    /\ TransportSucceeded => last.outcome = Resolved(last.answer.value)
    /\ TransportFailed => last.outcome.state = "rejected"

C10_Witness ==
    /\ TransportSucceeded
    /\ last.fn \in PrivateFns
    /\ last.outcome.state = "resolved"
    /\ last.outcome.value.status = 200

\* C11 (as claimed): a facade call hands the transport exactly one request
\* when it is a public operation or a private one made with credentials set,
\* and none when it is a private one made without credentials.
C11_OneRequestPerCall ==
    IsCall =>
      /\ (last.op \in PublicOps \/ Truthy(last.thisAuth)) =>
            (last.sent # NoRequest /\ Len(inflight) >= 1)
      /\ (last.op \in PrivateOps /\ ~Truthy(last.thisAuth)) => last.sent = NoRequest

\* C12: in any credential state a public operation hands the transport a
\* request, is not rejected, and the request has no auth field and no header
\* beyond the defaults and the caller's override.
C12_PublicNeedsNoCredentials ==
    (IsCall /\ last.op \in PublicOps)
    => /\ last.call.fn \in PublicFns
       /\ last.sent # NoRequest
       /\ last.outcome = Pending
       /\ ~CarriesAuthentication(last.sent)
       /\ DOMAIN last.sent = {"type", "baseURL", "headers", "method", "timeout", "url"}

C12_Witness ==
    /\ IsCall
    /\ last.op \in PublicOps
    /\ ctorAuth = Undefined
    /\ last.thisAuth = KeyB(variant)
    /\ last.sent # NoRequest

\* the private endpoints of spec.md section 6, instantiated with an id
DocumentedPrivateEndpoints(id) ==
    {"order", "order/" \o id, "trading/balance", "trading/fee/" \o id,
     "history/trades", "history/order", "history/order/" \o id \o "/trades",
     "account/balance", "account/transactions", "account/transactions/" \o id,
     "account/crypto/withdraw", "account/crypto/withdraw/" \o id,
     "account/crypto/address/" \o id, "account/transfer"}

\* C13 (as claimed): the endpoint a private operation hands the agent is an
\* instance of a documented private endpoint; getAccountTransactionById(id)
\* requests account/transactions/<id>.
C13_PrivateEndpointsDocumented ==
    PrivateCall
    => /\ last.call.endpoint \in DocumentedPrivateEndpoints(Interp(last.args.id))
       /\ last.op = "getAccountTransactionById"
          => last.call.endpoint = "account/transactions/" \o Interp(last.args.id)

\* C14: getCurrencyInfo(id) issues GET /public/symbol/<id>?, the request
\* getSymbolInfo(id) issues, never one for public/currency/<id>.
C14_CurrencyInfoUsesSymbolEndpoint ==
    (IsCall /\ last.op = "getCurrencyInfo")
    => /\ last.sent # NoRequest
       /\ last.sent.method = "GET"
       /\ last.sent.url = "/public/symbol/" \o Interp(last.args.id) \o "?"
       /\ last.sent.url # "/public/currency/" \o Interp(last.args.id) \o "?"
       /\ last.sent =
            Invoke(Facade("getSymbolInfo", last.args.id, Undefined),
                   auth, ctorAuth, configOverride).sent

C14_Witness ==
    /\ IsCall
    /\ last.op = "getCurrencyInfo"
    /\ variant = "hmac"
    /\ last.sent # NoRequest
    /\ last.sent.url = "/public/symbol/BTC?"

IsSign == last.kind = "sign"

\* the verb as it must appear in the hashed string
UpperCaseVerb(method) ==
    CASE method \in {"post", "POST"} -> "POST"
      [] method \in {"get", "GET"} -> "GET"

\* C15: signMessage hashes timestamp, upper-cased method, path and, when a
\* body is given, its JSON text, in that order; the timestamp returned is the
\* one hashed; the letter case of the method does not change the string.
C15_SignedStringLayout ==
    IsSign
    => LET hashed == last.result.digest.data
           stamp == NumberToString(last.result.timestamp)
       IN /\ last.result.timestamp = Seconds(last.now)
          /\ last.body # Undefined
             => hashed = stamp \o UpperCaseVerb(last.method) \o last.path
                         \o JsonStringify(last.body)
          /\ last.body = Undefined
             => hashed = stamp \o UpperCaseVerb(last.method) \o last.path
          /\ (last.now = 1500 /\ last.path = "/order" /\ last.method # "get"
              /\ last.body = HistoryParams)
             => hashed = "1.5POST/order{\"symbol\":\"ETHBTC\",\"limit\":5}"
          /\ (last.now = 2025 /\ last.path = "/account/balance"
              /\ last.method = "get" /\ last.body = Undefined)
             => hashed = "2.025GET/account/balance"
          /\ last.result.digest.key = Base64Decode(last.privateKey)

C15_Witness ==
    /\ IsSign
    /\ last.method = "post"
    /\ last.body = HistoryParams
    /\ last.now = 2000
    /\ last.result.digest.data = "2POST/order{\"symbol\":\"ETHBTC\",\"limit\":5}"

SameSignArguments(a, b) ==
    /\ a.privateKey = b.privateKey
    /\ a.path = b.path
    /\ a.method = b.method
    /\ a.body = b.body

\* C16: a signMessage call changes neither the client nor the requests in
\* flight; of two successive calls with the same arguments, those at the
\* same clock reading return the same digest and timestamp and those one
\* second apart return different timestamps and hash different strings.
C16_SignDeterministicNoEffects ==
    [][/\ (last'.kind = "sign" /\ last' # last)
          => /\ auth' = auth
             /\ ctorAuth' = ctorAuth
             /\ inflight' = inflight
             /\ configOverride' = configOverride
       /\ (last.kind = "sign" /\ last'.kind = "sign" /\ SameSignArguments(last, last'))
          => /\ last'.now = last.now => last'.result = last.result
             /\ last'.now = last.now + 1000
                => /\ last'.result.timestamp # last.result.timestamp
                   /\ last'.result.digest.data # last.result.digest.data
                   /\ last'.result.digest # last.result.digest]_vars

C16_Witness ==
    /\ IsSign
    /\ last.now = 2000
    /\ last.body = Undefined
    /\ last.result.timestamp = Seconds(2000)
    /\ last.result.digest.data = "2GET/order"
    /\ Len(inflight) = 1
    /\ auth = KeyB(variant)

\* C17 (as claimed): a call settles exactly once; it settles before the
\* transport has answered only as the no-credentials rejection; a request at
\* the transport leaves it by one settlement, resolved or rejected; and while
\* the transport answers every request, a pending call is eventually settled.
C17_SettlesOnceAfterTransport ==
    /\ [](IsCall => IF last.sent = NoRequest
                    THEN last.outcome = Rejected(AuthRequired)
                    ELSE last.outcome = Pending)
    /\ [](IsSettle => last.outcome.state \in {"resolved", "rejected"})
    /\ [][(last'.kind = "settle" /\ inflight' # inflight)
          => Len(inflight') = Len(inflight) - 1]_vars
    /\ (inflight # <<>>) ~> IsSettle

\* C18: an upgrade leaves the requests in flight as they were built; each is
\* then settled by the transport's answer alone and leaves the transport,
\* none being handed over again.
C18_UpgradeLeavesInFlight ==
    [][/\ (last'.kind = "upgrade" /\ (last' # last \/ auth' # auth))
          => inflight' = inflight
       /\ (last'.kind = "settle" /\ inflight' # inflight)
          => /\ \E i \in 1..Len(inflight) : inflight' = Remove(inflight, i)
             /\ last'.outcome = IF last'.answer.ok
                                THEN Resolved(last'.answer.value)
                                ELSE Rejected(rejectionReason(last'.answer.value))
             /\ auth' = auth]_vars

C18_Witness ==
    /\ last.kind = "upgrade"
    /\ variant = "basic"
    /\ auth = KeyB(variant)
    /\ Len(inflight) = 1
    /\ inflight[1].fn \in PrivateFns
    /\ inflight[1].request.auth.username = KeyA(variant).publicKey

\* C19 (as claimed): a call leaves the stored credentials as they were, and
\* a client built without credentials, once upgraded, has its private calls
\* handed to the transport.
C19_OnlyUpgradeChangesCredentials ==
    /\ IsCall => auth = last.thisAuth
    /\ (PrivateCall /\ ctorAuth = Undefined /\ last.thisAuth \in NewAuths(variant))
       => (last.sent # NoRequest /\ last.outcome = Pending)

\* the request body: none when data is absent, null or undefined
Body(req) == IF Nullish(Get(req, "data")) THEN Null ELSE req.data

\* C20 (as claimed): with credentials set, the two facades hand the transport
\* requests with the same verb, URL and body for the same operation and
\* arguments.
C20_VariantsAgreeOnTheWire ==
    (IsCall /\ Truthy(last.thisAuth))
    => LET basic == Invoke(getClient(last.op, last.args.id, last.args.params),
                           last.thisAuth, last.thisAuth, configOverride).sent
           hmac == Invoke(getClientHmac(last.op, last.args.id, last.args.params),
                          last.thisAuth, last.thisAuth, configOverride).sent
       IN /\ basic # NoRequest
          /\ hmac # NoRequest
          /\ basic.method = hmac.method
          /\ basic.url = hmac.url
          /\ Body(basic) = Body(hmac)

DefaultHeaderNames == {"Content-Type", "User-Agent"}

\* C21 (as claimed): a private request issued with a headers override still
\* carries each default header the override does not name, with its default
\* value; a request issued without an override carries the JSON content
\* type and the 3000 ms timeout.
C21_HeaderOverridesMerged ==
    (IsCall /\ last.sent # NoRequest)
    => /\ (PrivateCall /\ Truthy(configOverride)
           /\ Get(configOverride, "headers") # Undefined)
          => \A h \in DefaultHeaderNames \ Props(configOverride.headers) :
               /\ h \in DOMAIN last.sent.headers
               /\ last.sent.headers[h] = defaultAgentConfig.headers[h]
       /\ configOverride = Null
          => /\ last.sent.headers["Content-Type"] = "application/json"
             /\ last.sent.timeout = 3000

\* C22: a step of one client -- an upgrade or a call -- leaves unchanged what
\* the other client reports from isUpgraded() and what each of its calls
\* would do: the rejection for missing credentials, or the request with the
\* credentials attached to it.
C22_CredentialsPerClient ==
    [][\A c \in Clients :
         (last'.kind \in {"upgrade", "call"} /\ last'.client = c)
         => \A o \in Clients \ {c} :
              /\ ClientIsUpgraded(o)' = ClientIsUpgraded(o)
              /\ \A op \in TwoOps : \A a \in ArgsOf(op) :
                   ClientInvoke(o, op, a)' = ClientInvoke(o, op, a)]_vars

C22_Witness ==
    /\ last.kind = "call"
    /\ last.client = 2
    /\ last.op \in PrivateOps
    /\ last.outcome = Rejected(AuthRequired)
    /\ ctorAuth = Undefined
    /\ auth = KeyB(variant)
    /\ peer.auth = Undefined

====
